---- MODULE Spec2Model ----
(***************************************************************************)
(* A model of nanochat's GPU metrics report (nanochat/metrics_report.py):  *)
(* file discovery, the metadata parser, the CSV normaliser, the series     *)
(* builder with its downsampling, and the control flow of                  *)
(* generate_html_report.                                                   *)
(*                                                                         *)
(* Text is modelled as sequences of one-character strings, so that the     *)
(* regular expressions, split and strip of the source are computed and     *)
(* not assumed.  Floating point values are integers counted in tenths.     *)
(***************************************************************************)
EXTENDS Integers, Sequences, FiniteSets, TLC

VARIABLES
    pc,          \* control point of the call being modelled
    metrics_dir, \* the metrics directory: whether it exists, and its entries
    pad_year,    \* whether the platform's strftime pads %Y to four digits
    files,       \* what discover_metrics_files returned
    files2,      \* what a second discovery of the same directory returned
    meta_file,   \* parse_meta_file: the file at meta_path (exists, text)
    meta,        \* what parse_meta_file returned
    csv_path,    \* load_metrics_dataframe: its argument
    csv,         \* the content of the file at csv_path
    df,          \* the DataFrame a load returned
    err,         \* the exception a call raised, or NoError
    fs,          \* the files of metrics_dir: path -> CSV content and sidecar
    i,           \* generate_html_report: files processed so far
    summaries,   \* generate_html_report: key -> summary
    meta_by_key, \* generate_html_report: key -> metadata
    figures,     \* generate_html_report: fig_key -> figure
    report,      \* the file at out_path: whether it exists, writes to it, payload
    sdf,         \* one per-GPU partition of the normalised rows
    series       \* the trace built from sdf (go.Scatter x / y)

vars == <<pc, metrics_dir, pad_year, files, files2, meta_file, meta, csv_path, csv, df, err,
          fs, i, summaries, meta_by_key, figures, report, sdf, series>>
\* the variables only generate_html_report uses
gen_vars == <<fs, i, summaries, meta_by_key, figures, report>>

None == "None"
\* no exception
NoError == [type |-> "None", msg |-> ""]
\* a path at which no file exists
NoFile == [exists |-> FALSE, text |-> ""]

(***************************************************************************)
(* Bounds                                                                  *)
(***************************************************************************)
\* partition sizes are drawn from 1..Spread and from within Spread of each
\* multiple of the point budget up to MaxMultiple
Spread == 30
MaxMultiple == 3
\* a directory holds at most MaxEntries entries
MaxEntries == 3
\* a metadata file has at most MaxLines lines
MaxLines == 3
\* the long CSV has BigGpus GPUs and BigSamples rows for each
BigGpus == 3
BigSamples == 1500
\* a small CSV has at most MaxRows rows and lacks at most MaxMissing columns
MaxRows == 3
MaxMissing == 2

(***************************************************************************)
(* Text: str methods used by the source, on TLA+ strings                   *)
(***************************************************************************)
Min(S) == CHOOSE a \in S : \A b \in S : a <= b
MaxOf(S) == CHOOSE a \in S : \A b \in S : a >= b

\* s[a-1:b] and s[k-1:k]: slices never fail, they clip
Slice(s, a, b) ==
    IF a > Len(s) \/ b < a \/ b < 1 THEN ""
    ELSE SubSeq(s, IF a < 1 THEN 1 ELSE a, IF b > Len(s) THEN Len(s) ELSE b)
Ch(s, k) == IF k >= 1 /\ k <= Len(s) THEN SubSeq(s, k, k) ELSE ""

DIGITS == "0123456789"
UPPER == "ABCDEFGHIJKLMNOPQRSTUVWXYZ"
LOWER == "abcdefghijklmnopqrstuvwxyz"
\* printable ASCII in code-point order (the order str comparison uses)
ASCII == " !#$%&'()*+,-./0123456789:;<=>?@ABCDEFGHIJKLMNOPQRSTUVWXYZ[]^_abcdefghijklmnopqrstuvwxyz{|}~"

IndexIn(alphabet, c) ==
    LET hits == {k \in 1..Len(alphabet) : Ch(alphabet, k) = c}
    IN IF hits = {} THEN 0 ELSE Min(hits)

\* lookup tables, computed once
DIGIT_VAL == [c \in {Ch(DIGITS, k) : k \in 1..Len(DIGITS)} |-> IndexIn(DIGITS, c) - 1]
LOWER_OF == [c \in {Ch(UPPER, k) : k \in 1..Len(UPPER)} |-> Ch(LOWER, IndexIn(UPPER, c))]
ORD == [c \in {Ch(ASCII, k) : k \in 1..Len(ASCII)} |-> IndexIn(ASCII, c)]

IsDigit(c) == c \in DOMAIN DIGIT_VAL
DigitVal(c) == DIGIT_VAL[c]
IsSpace(c) == c \in {" ", "\t", "\n", "\r"}

\* str.startswith / str.endswith / "p in s"
StartsWith(s, p) == Len(s) >= Len(p) /\ SubSeq(s, 1, Len(p)) = p
EndsWith(s, p) == Len(s) >= Len(p) /\ SubSeq(s, Len(s) - Len(p) + 1, Len(s)) = p
Contains(s, p) == \E k \in 1..(Len(s) - Len(p) + 1) : SubSeq(s, k, k + Len(p) - 1) = p
\* str.find, 1-based, 0 when absent
Find(s, p) ==
    LET hits == {k \in 1..(Len(s) - Len(p) + 1) : SubSeq(s, k, k + Len(p) - 1) = p}
    IN IF hits = {} THEN 0 ELSE Min(hits)

\* str.strip()
Strip(s) ==
    LET keep == {k \in 1..Len(s) : ~IsSpace(Ch(s, k))}
    IN IF s = "" \/ (~IsSpace(Ch(s, 1)) /\ ~IsSpace(Ch(s, Len(s)))) THEN s
       ELSE IF keep = {} THEN "" ELSE SubSeq(s, Min(keep), MaxOf(keep))

\* str.lower()
LowerCh(c) == IF c \in DOMAIN LOWER_OF THEN LOWER_OF[c] ELSE c
RECURSIVE Lower(_)
Lower(s) == IF s = "" THEN "" ELSE LowerCh(Ch(s, 1)) \o Lower(SubSeq(s, 2, Len(s)))

AllDigits(s) == \A k \in 1..Len(s) : IsDigit(Ch(s, k))

\* int(s) for a string of digits
RECURSIVE ParseNat(_)
ParseNat(s) ==
    IF s = "" THEN 0
    ELSE ParseNat(SubSeq(s, 1, Len(s) - 1)) * 10 + DigitVal(Ch(s, Len(s)))

\* "%0<width>d" % n, and "%d" % n when the number is wider than width
RECURSIVE FmtNat(_, _)
FmtNat(n, width) ==
    IF n < 10 /\ width <= 1 THEN Ch(DIGITS, n + 1)
    ELSE FmtNat(n \div 10, width - 1) \o Ch(DIGITS, (n % 10) + 1)

\* str comparison: lexicographic by code point
RECURSIVE StrLess(_, _)
StrLess(a, b) ==
    IF b = "" THEN FALSE
    ELSE IF a = "" THEN TRUE
    ELSE IF Ch(a, 1) = Ch(b, 1) THEN StrLess(SubSeq(a, 2, Len(a)), SubSeq(b, 2, Len(b)))
    ELSE ORD[Ch(a, 1)] < ORD[Ch(b, 1)]

\* the calendar of datetime
IsLeap(y) == (y % 4 = 0 /\ y % 100 # 0) \/ y % 400 = 0
DaysIn(y, m) ==
    IF m = 2 THEN (IF IsLeap(y) THEN 29 ELSE 28)
    ELSE IF m \in {4, 6, 9, 11} THEN 30 ELSE 31

(***************************************************************************)
(* File discovery (lines 13-54)                                            *)
(***************************************************************************)
\* Path.glob("gpu_*.csv") on one name (fnmatch, case-sensitive)
GlobMatch(name) == Len(name) >= 8 /\ StartsWith(name, "gpu_") /\ EndsWith(name, ".csv")

\* _GPU_CSV_RE = ^gpu_(?P<phase>.+)_(?P<ts>\d{8}_\d{6})\.csv$
\* The tail _<ts>.csv has a fixed length, so the greedy phase is what is left
\* between "gpu_" and that tail.  [ok |-> FALSE] stands for no match.
ReMatchCsv(name) ==
    LET n == Len(name)
        ts == SubSeq(name, n - 18, n - 4)
        phase == SubSeq(name, 5, n - 20)
        ok == /\ n >= 25
              /\ StartsWith(name, "gpu_")
              /\ EndsWith(name, ".csv")
              /\ Ch(name, n - 19) = "_"
              /\ AllDigits(SubSeq(ts, 1, 8)) /\ Ch(ts, 9) = "_" /\ AllDigits(SubSeq(ts, 10, 15))
              /\ ~Contains(phase, "\n")
    IN IF ok THEN [ok |-> TRUE, phase |-> phase, ts |-> ts]
       ELSE [ok |-> FALSE, phase |-> "", ts |-> ""]

\* dt.datetime.strptime(ts, "%Y%m%d_%H%M%S") on 8 digits, "_", 6 digits:
\* <<year, month, day, hour, minute, second>>, or ValueError ([ok |-> FALSE])
Strptime(ts) ==
    LET t == <<ParseNat(SubSeq(ts, 1, 4)), ParseNat(SubSeq(ts, 5, 6)),
               ParseNat(SubSeq(ts, 7, 8)), ParseNat(SubSeq(ts, 10, 11)),
               ParseNat(SubSeq(ts, 12, 13)), ParseNat(SubSeq(ts, 14, 15))>>
        ok == /\ t[1] >= 1 /\ t[2] \in 1..12 /\ t[3] \in 1..DaysIn(t[1], t[2])
              /\ t[4] <= 23 /\ t[5] <= 59 /\ t[6] <= 59
    IN [ok |-> ok, t |-> t]

\* timestamp.strftime("%Y%m%d_%H%M%S"); pad: the C library pads %Y
Strftime(t, pad) ==
    FmtNat(t[1], IF pad THEN 4 ELSE 1) \o FmtNat(t[2], 2) \o FmtNat(t[3], 2) \o "_"
    \o FmtNat(t[4], 2) \o FmtNat(t[5], 2) \o FmtNat(t[6], 2)

\* timestamp.strftime("%Y%m%d")
StrftimeDate(t, pad) ==
    FmtNat(t[1], IF pad THEN 4 ELSE 1) \o FmtNat(t[2], 2) \o FmtNat(t[3], 2)

\* MetricsFile.key
KeyByDate(mf, pad) == mf.phase \o "__" \o StrftimeDate(mf.timestamp, pad)
Key(mf, pad) == mf.phase \o "__" \o Strftime(mf.timestamp, pad)

\* MetricsFile.meta_path: csv_path.with_suffix(".meta.txt")
MetaPath(mf) == SubSeq(mf.csv_path, 1, Len(mf.csv_path) - 4) \o ".meta.txt"

\* sorted(paths): insertion of each listed name into an ascending sequence
RECURSIVE Insert(_, _)
Insert(sorted, x) ==
    IF sorted = <<>> THEN <<x>>
    ELSE IF StrLess(x, Head(sorted)) THEN <<x>> \o sorted
    ELSE <<Head(sorted)>> \o Insert(Tail(sorted), x)
RECURSIVE Sorted(_)
Sorted(listing) ==
    IF listing = <<>> THEN <<>>
    ELSE Insert(Sorted(SubSeq(listing, 1, Len(listing) - 1)), listing[Len(listing)])

ValueError(ts) ==
    [type |-> "ValueError", msg |-> "time data '" \o ts \o "' does not match format"]

\* the loop of lines 46-54 over the sorted names
RECURSIVE DiscoverLoop(_, _)
DiscoverLoop(dirpath, names) ==
    IF names = <<>> THEN [raised |-> NoError, out |-> <<>>]
    ELSE LET rest == DiscoverLoop(dirpath, SubSeq(names, 1, Len(names) - 1))
             name == names[Len(names)]
             m == ReMatchCsv(name)
             ts == Strptime(m.ts)
         IN IF rest.raised # NoError \/ ~m.ok THEN rest
            ELSE IF ~ts.ok THEN [raised |-> ValueError(m.ts), out |-> <<>>]
            ELSE [raised |-> NoError,
                  out |-> Append(rest.out, [csv_path |-> dirpath \o "/" \o name,
                                            phase |-> m.phase,
                                            timestamp |-> ts.t])]

\* discover_metrics_files(metrics_dir), listing being the order in which glob
\* yields the directory's entries
DiscoverMetricsFiles(dir, listing) ==
    IF ~dir.exists THEN [raised |-> NoError, out |-> <<>>]
    ELSE DiscoverLoop(dir.path, Sorted(SelectSeq(listing, GlobMatch)))

\* the orders in which a directory's entries can be listed
Listings(entries) ==
    {q \in [1..Cardinality(entries) -> entries] :
        \A a, b \in 1..Cardinality(entries) : a # b => q[a] # q[b]}

(***************************************************************************)
(* Metadata parser (parse_meta_file, lines 137-160)                        *)
(***************************************************************************)
\* str.splitlines() for text whose line breaks are "\n"
RECURSIVE SplitLines(_)
SplitLines(text) ==
    LET nl == Find(text, "\n")
    IN IF text = "" THEN <<>>
       ELSE IF nl = 0 THEN <<text>>
       ELSE <<SubSeq(text, 1, nl - 1)>> \o SplitLines(SubSeq(text, nl + 1, Len(text)))

\* "\n".join(lines)
RECURSIVE JoinLines(_)
JoinLines(lines) ==
    IF lines = <<>> THEN ""
    ELSE IF Len(lines) = 1 THEN lines[1]
    ELSE lines[1] \o "\n" \o JoinLines(Tail(lines))

\* the number of whitespace characters of s from position a on
WsRun(s, a) ==
    LET stops == {k \in a..(Len(s) + 1) : k = Len(s) + 1 \/ ~IsSpace(Ch(s, k))}
    IN Min(stops) - a

\* the number of digits of s from position a on
DigitRun(s, a) ==
    LET stops == {k \in a..(Len(s) + 1) : k = Len(s) + 1 \/ ~IsDigit(Ch(s, k))}
    IN Min(stops) - a

\* re.match(r"GPU\s+(?P<idx>\d+):\s+(?P<name>.+?)\s+\(UUID:\s+(?P<uuid>.+)\)", line)
\* with the regex engine's choices: \s+ and the uuid greedy, the name lazy.
ReMatchGpu(line) ==
    LET n == Len(line)
        w0 == WsRun(line, 4)
        d0 == 4 + w0                       \* first digit of idx
        dn == DigitRun(line, d0)
        colon == d0 + dn
        w1 == WsRun(line, colon + 1)
        parens == {k \in 1..n : Ch(line, k) = ")"}
        lastParen == IF parens = {} THEN 0 ELSE MaxOf(parens)
        \* what follows a name ending at e: \s+ \(UUID: \s+ uuid \)
        q(e) == e + 1 + WsRun(line, e + 1)
        w2s(e) == {w \in 1..WsRun(line, q(e) + 6) : lastParen >= q(e) + 6 + w + 1}
        tail(e) == /\ WsRun(line, e + 1) >= 1
                   /\ Slice(line, q(e), q(e) + 5) = "(UUID:"
                   /\ w2s(e) # {}
        \* <<w, e>>: w whitespace after the colon, the name ending at e
        cands == {c \in (1..w1) \X (1..n) : c[2] >= colon + 1 + c[1] /\ tail(c[2])}
        w == MaxOf({c[1] : c \in cands})
        e == Min({c[2] : c \in {x \in cands : x[1] = w}})
        us == q(e) + 6 + MaxOf(w2s(e))
        ok == /\ StartsWith(line, "GPU")
              /\ w0 >= 1 /\ dn >= 1
              /\ colon <= n /\ Ch(line, colon) = ":"
              /\ w1 >= 1
              /\ cands # {}
    IN IF ok THEN [ok |-> TRUE,
                   gpu |-> [index |-> Slice(line, d0, colon - 1),
                            name |-> Slice(line, colon + 1 + w, e),
                            uuid |-> Slice(line, us, lastParen - 1)]]
       ELSE [ok |-> FALSE, gpu |-> [index |-> "", name |-> "", uuid |-> ""]]

\* the condition of line 147 and the pair of lines 148-149
IsKvLine(line) == Contains(line, "=") /\ ~StartsWith(line, "[")
KvKey(line) == Strip(SubSeq(line, 1, Find(line, "=") - 1))
KvValue(line) == Strip(SubSeq(line, Find(line, "=") + 1, Len(line)))

\* the condition of line 153 and the match of lines 155-156
IsGpuLine(line) ==
    /\ StartsWith(line, "GPU ") /\ Contains(line, ":") /\ Contains(line, "(UUID:")
    /\ ReMatchGpu(line).ok

\* a value of the returned dict: a str, or the list of GPU entries
StrValue(s) == [kind |-> "str", s |-> s, list |-> <<>>]
ListValue(l) == [kind |-> "list", s |-> "", list |-> l]

\* the dict after the loop of lines 146-149: a later line overwrites an earlier
KvDict(lines) ==
    LET at == {k \in 1..Len(lines) : IsKvLine(lines[k])}
    IN [key \in {KvKey(lines[k]) : k \in at} |->
           StrValue(KvValue(lines[MaxOf({k \in at : KvKey(lines[k]) = key})]))]

\* the list built by lines 151-157
GpuList(lines) ==
    LET hit == SelectSeq(lines, IsGpuLine)
    IN [k \in 1..Len(hit) |-> ReMatchGpu(hit[k]).gpu]

\* parse_meta_file(meta_path), f being the file at meta_path
ParseMetaFile(f) ==
    LET lines == SplitLines(f.text)
        out == KvDict(lines)
        gpus == GpuList(lines)
    IN IF ~f.exists THEN <<>>
       ELSE IF gpus # <<>> THEN ("gpus" :> ListValue(gpus)) @@ out
       ELSE out

(***************************************************************************)
(* Numbers: float() and pandas' numeric parsing.  A float is <<h>>, h its   *)
(* value in hundredths, and NaN (a missing value) is <<>>; fraction digits *)
(* after the second are dropped.  Only the decimal forms                   *)
(* [-+]?digits[.digits] and "nan" are recognised; every other text is a    *)
(* ValueError.                                                             *)
(***************************************************************************)
NaN == <<>>

IsSign(c) == c \in {"+", "-"}

\* the value of the digits ip, a point and the digits fp, negated when neg
Decimal(neg, ip, fp) ==
    IF AllDigits(ip) /\ AllDigits(fp) /\ Len(ip) + Len(fp) > 0
    THEN [ok |-> TRUE,
          v |-> <<(IF neg THEN 0 - 1 ELSE 1)
                  * (ParseNat(ip) * 100 + ParseNat(SubSeq(fp \o "00", 1, 2)))>>]
    ELSE [ok |-> FALSE, v |-> NaN]

\* the text after the sign, dot being the position of its point (0: none)
Unsigned(neg, body, dot) ==
    IF Len(body) = 3 /\ Lower(body) = "nan" THEN [ok |-> TRUE, v |-> NaN]
    ELSE Decimal(neg,
                 IF dot = 0 THEN body ELSE SubSeq(body, 1, dot - 1),
                 IF dot = 0 THEN "" ELSE SubSeq(body, dot + 1, Len(body)))

Signed(neg, body) == Unsigned(neg, body, Find(body, "."))

Stripped(s) ==
    Signed(s # "" /\ Ch(s, 1) = "-",
           IF s # "" /\ IsSign(Ch(s, 1)) THEN SubSeq(s, 2, Len(s)) ELSE s)

\* float(s): [ok |-> FALSE] stands for ValueError
PyFloat(s) == Stripped(Strip(s))

\* re.search(r"[-+]?\d+(\.\d+)?", s).group(0), or None.  \d+ is greedy: the
\* digits run to the first non-digit.  e1 is the position after the integer
\* digits, d0 their start and b the start of the match.
TokenEnd(s, e1) ==
    IF e1 + 1 <= Len(s) /\ Ch(s, e1) = "." /\ IsDigit(Ch(s, e1 + 1))
    THEN e1 + 1 + DigitRun(s, e1 + 1)
    ELSE e1
TokenFrom(s, b, d0) == SubSeq(s, b, TokenEnd(s, d0 + DigitRun(s, d0)) - 1)
TokenAt(s, b) == TokenFrom(s, b, IF IsDigit(Ch(s, b)) THEN b ELSE b + 1)
FirstFloatToken(s) ==
    LET starts == {k \in 1..Len(s) :
                      \/ IsDigit(Ch(s, k))
                      \/ (IsSign(Ch(s, k)) /\ k < Len(s) /\ IsDigit(Ch(s, k + 1)))}
    IN IF starts = {} THEN None ELSE TokenAt(s, Min(starts))

\* lines 69-72: r is float(s), tok the first number found in s
FloatOrToken(r, tok) ==
    IF r.ok THEN r.v
    ELSE IF tok # None THEN PyFloat(tok).v ELSE NaN

\* lines 65-67
StripUnit(s, unit_suffix) ==
    IF unit_suffix # "" /\ EndsWith(s, unit_suffix)
    THEN Strip(SubSeq(s, 1, Len(s) - Len(unit_suffix)))
    ELSE s

\* lines 68-72
ParseNumber(s) == FloatOrToken(PyFloat(s), FirstFloatToken(s))

\* lines 62-72, s being str(value).strip()
ToFloatOf(s, unit_suffix) ==
    IF s = "" \/ (Len(s) = 3 /\ Lower(s) = "n/a") THEN NaN
    ELSE ParseNumber(Strip(StripUnit(s, unit_suffix)))

\* _to_float_unit(value, unit_suffix), value given as str(value)
ToFloatUnit(value, unit_suffix) == ToFloatOf(Strip(value), unit_suffix)

(***************************************************************************)
(* CSV normaliser (load_metrics_dataframe, lines 83-134)                   *)
(***************************************************************************)
\* pd.read_csv reads these cells as missing (its default na_values)
NA_VALUES == {"", "#N/A", "#NA", "<NA>", "N/A", "NA", "NULL", "NaN", "None",
              "n/a", "nan", "null", "-NaN", "-nan"}

\* str(value) of a cell as _to_float_unit sees it
CellStr(cell) == IF cell \in NA_VALUES THEN "nan" ELSE cell

\* pd.to_numeric(cell, errors="coerce")
Coerce(r) == IF r.ok THEN r.v ELSE NaN
ToNumeric(cell) == IF cell \in NA_VALUES THEN NaN ELSE Coerce(PyFloat(cell))

NaT == <<>>

\* pd.to_datetime(cell, errors="coerce") for the observed format
\* YYYY/MM/DD HH:MM:SS.mmm; any other text is NaT.  A timestamp is the tuple
\* <<year, month, day, hour, minute, second, millisecond>>.
ToDatetime(cell) ==
    LET f(a, b) == SubSeq(cell, a, b)
        shape == /\ Len(cell) = 23
                 /\ Ch(cell, 5) = "/" /\ Ch(cell, 8) = "/" /\ Ch(cell, 11) = " "
                 /\ Ch(cell, 14) = ":" /\ Ch(cell, 17) = ":" /\ Ch(cell, 20) = "."
                 /\ AllDigits(f(1, 4) \o f(6, 7) \o f(9, 10) \o f(12, 13)
                              \o f(15, 16) \o f(18, 19) \o f(21, 23))
        t == <<ParseNat(f(1, 4)), ParseNat(f(6, 7)), ParseNat(f(9, 10)),
               ParseNat(f(12, 13)), ParseNat(f(15, 16)), ParseNat(f(18, 19)),
               ParseNat(f(21, 23))>>
    IN IF /\ cell \notin NA_VALUES
          /\ shape
          /\ t[1] >= 1 /\ t[2] \in 1..12 /\ t[3] \in 1..DaysIn(t[1], t[2])
          /\ t[4] <= 23 /\ t[5] <= 59 /\ t[6] <= 59
       THEN t ELSE NaT

\* order of timestamps
RECURSIVE TupLess(_, _)
TupLess(a, b) ==
    IF a = <<>> THEN FALSE
    ELSE IF Head(a) = Head(b) THEN TupLess(Tail(a), Tail(b))
    ELSE Head(a) < Head(b)
TsLeq(a, b) == a = b \/ TupLess(a, b)

\* datetime.isoformat() of a pandas Timestamp
IsoFormat(t) ==
    FmtNat(t[1], 4) \o "-" \o FmtNat(t[2], 2) \o "-" \o FmtNat(t[3], 2) \o "T"
    \o FmtNat(t[4], 2) \o ":" \o FmtNat(t[5], 2) \o ":" \o FmtNat(t[6], 2)
    \o (IF t[7] = 0 THEN "" ELSE "." \o FmtNat(t[7], 3) \o "000")

\* the prefixes find_col resolves, in the order of lines 106-115
REQUIRED == <<"timestamp", "index", "utilization.gpu", "utilization.memory",
              "power.draw", "clocks.current.sm", "clocks.current.memory",
              "temperature.gpu", "memory.used", "memory.total">>

\* _normalize_columns
NormalizeColumns(cols) == [k \in 1..Len(cols) |-> Strip(cols[k])]

\* find_col: the position of the first column starting with prefix, 0 for KeyError
FindCol(cols, prefix) ==
    LET hits == {k \in 1..Len(cols) : StartsWith(cols[k], prefix)}
    IN IF hits = {} THEN 0 ELSE Min(hits)

KeyErrorWithoutPath(prefix, path) ==
    [type |-> "KeyError", msg |-> "Missing expected column starting with '" \o prefix \o "'"]
KeyError(prefix, path) ==
    [type |-> "KeyError",
     msg |-> "Missing expected column starting with '" \o prefix \o "' in " \o path]

\* IntegerArray's safe cast: a float that is no whole number cannot become Int64
TypeErrorInt64 ==
    [type |-> "TypeError", msg |-> "cannot safely cast non-equivalent float64 to int64"]

\* a cast that truncates instead
AnyValue(v) == TRUE
IsWhole(v) == v[1] % 100 = 0

\* .astype("Int64") of one value, then .astype(int)
AsInt(v) == v[1] \div 100

\* the measurement columns of lines 121-128: name, header prefix, unit suffix
MEASUREMENTS ==
    <<[name |-> "gpu_util_pct", prefix |-> "utilization.gpu", unit |-> "%"],
      [name |-> "mem_util_pct", prefix |-> "utilization.memory", unit |-> "%"],
      [name |-> "power_w", prefix |-> "power.draw", unit |-> "W"],
      [name |-> "sm_clock_mhz", prefix |-> "clocks.current.sm", unit |-> "MHz"],
      [name |-> "mem_clock_mhz", prefix |-> "clocks.current.memory", unit |-> "MHz"],
      [name |-> "temp_c", prefix |-> "temperature.gpu", unit |-> ""],
      [name |-> "mem_used_mib", prefix |-> "memory.used", unit |-> "MiB"],
      [name |-> "mem_total_mib", prefix |-> "memory.total", unit |-> "MiB"]>>
MEASUREMENT_OF == [n \in {MEASUREMENTS[j].name : j \in 1..Len(MEASUREMENTS)} |->
                      CHOOSE m \in {MEASUREMENTS[j] : j \in 1..Len(MEASUREMENTS)} : m.name = n]

\* one row of the frame after lines 118-128; col gives each prefix's column and
\* row is the frame's index label
NormRow(col, cells, k) ==
    [row |-> k - 1,
     ts |-> ToDatetime(cells[col["timestamp"]]),
     gpu_index |-> ToNumeric(cells[col["index"]])]
    @@ [n \in DOMAIN MEASUREMENT_OF |->
           ToFloatUnit(CellStr(cells[col[MEASUREMENT_OF[n].prefix]]), MEASUREMENT_OF[n].unit)]

\* the frame after lines 118-128
Normalised(col, rows) == [k \in 1..Len(rows) |-> NormRow(col, rows[k], k)]

\* line 119: some index is a number but no whole number
Unsafe(full) == \E k \in 1..Len(full) : full[k].gpu_index # NaN /\ ~IsWhole(full[k].gpu_index)

\* df.dropna(subset=["ts", "gpu_index"])
DropNa(rows) == SelectSeq(rows, LAMBDA r : r.ts # NaT /\ r.gpu_index # NaN)

\* line 132: df["gpu_index"].astype(int)
AsTypeInt(kept) == [k \in 1..Len(kept) |-> [kept[k] EXCEPT !.gpu_index = AsInt(kept[k].gpu_index)]]

\* lines 117-134 on the frame whose columns were all found
Convert(full) ==
    IF Unsafe(full) THEN [raised |-> TypeErrorInt64, df |-> <<>>]
    ELSE [raised |-> NoError, df |-> AsTypeInt(DropNa(full))]

\* lines 106-115: the column of each required prefix
ResolveColumns(cols) == [p \in {REQUIRED[k] : k \in 1..Len(REQUIRED)} |-> FindCol(cols, p)]
Missing(col) == {k \in 1..Len(REQUIRED) : col[REQUIRED[k]] = 0}

LoadWith(path, rows, col) ==
    IF Missing(col) # {} THEN [raised |-> KeyError(REQUIRED[Min(Missing(col))], path), df |-> <<>>]
    ELSE Convert(Normalised(col, rows))

\* load_metrics_dataframe(csv_path) on the content c of that file:
\* [raised |-> the exception or None, df |-> the rows returned]
LoadMetricsDataframe(path, c) ==
    LoadWith(path, c.rows, ResolveColumns(NormalizeColumns(c.header)))

(***************************************************************************)
(* CSV inputs: nvidia-smi's header and rows, as read by pd.read_csv        *)
(***************************************************************************)
STD_HEADER == <<"timestamp", "index", "utilization.gpu [%]", "utilization.memory [%]",
                "power.draw [W]", "clocks.current.sm [MHz]",
                "clocks.current.memory [MHz]", "temperature.gpu",
                "memory.used [MiB]", "memory.total [MiB] ">>

StdCells(tsCell, idxCell, utilCell) ==
    <<tsCell, idxCell, utilCell, "12 %", "120.50 W", "1515 MHz", "6800 MHz", "45",
      "1024 MiB", "24564 MiB">>

\* s without the positions in D
Without(s, D) ==
    LET ks == {k \in 1..Len(s) : k \notin D}
    IN [j \in 1..Cardinality(ks) |->
           s[CHOOSE k \in ks : Cardinality({x \in ks : x < k}) = j - 1]]

T1 == "2024/01/02 03:04:05.000"
T2 == "2024/01/02 03:04:06.500"

\* rows that parse, rows whose timestamp or index does not, rows whose
\* measurement cannot be coerced, a negative and a fractional index
RowPool == {
    StdCells(T1, "0", "45 %"),
    StdCells(T2, "1", "97 %"),
    StdCells(T1, "1", "[N/A]"),
    StdCells("garbage", "0", "45 %"),
    StdCells(T2, "abc", "45 %"),
    StdCells(T2, "", "N/A"),
    StdCells(T1, "-1", "45 %"),
    StdCells(T2, "1.5", "45 %"),
    StdCells(T1, "2.0", "util 7.5") }

RECURSIVE SeqsUpTo(_, _)
SeqsUpTo(S, n) ==
    IF n = 0 THEN {<<>>}
    ELSE LET shorter == SeqsUpTo(S, n - 1)
         IN shorter \cup {Append(q, x) : q \in {r \in shorter : Len(r) = n - 1}, x \in S}

\* the CSV whose header lacks the columns D
CsvLacking(D, rows) ==
    [header |-> Without(STD_HEADER, D),
     rows |-> [k \in 1..Len(rows) |-> Without(rows[k], D)]]

MissingSets == {D \in SUBSET (1..Len(STD_HEADER)) : Cardinality(D) \in 1..MaxMissing}

SmallCsvs ==
    {CsvLacking({}, rows) : rows \in SeqsUpTo(RowPool, MaxRows)}
    \cup {CsvLacking(D, <<StdCells(T1, "0", "45 %")>>) : D \in MissingSets}

(***************************************************************************)
(* Series builder: downsampling (generate_html_report, lines 228-255)      *)
(***************************************************************************)
MAX_POINTS_PER_SERIES == 1000

Max(a, b) == IF a >= b THEN a ELSE b

\* math.ceil(n / d) for positive d
Ceil(n, d) == (n + d - 1) \div d

\* sdf.iloc[step-1::step] : positions step-1, 2*step-1, ... of s
ILocFromStep(s, step) == [j \in 1..(Len(s) \div step) |-> s[j * step]]
\* sdf.iloc[::step] : positions 0, step, 2*step, ... of s
ILocStep(s, step) ==
    [j \in 1..((Len(s) + step - 1) \div step) |-> s[(j - 1) * step + 1]]

\* step = max(1, math.ceil(n / MAX_POINTS_PER_SERIES))
StrideFloor(n) == Max(1, n \div MAX_POINTS_PER_SERIES)
Stride(n) == Max(1, Ceil(n, MAX_POINTS_PER_SERIES))

\* lines 233-236
Downsample(s) ==
    IF Len(s) > MAX_POINTS_PER_SERIES THEN ILocStep(s, Stride(Len(s))) ELSE s

\* str(n) for an integer
IntStr(n) == IF n < 0 THEN "-" \o FmtNat(0 - n, 1) ELSE FmtNat(n, 1)

\* go.Scatter(x=sdf["ts"], y=sdf[metric], mode="lines", name=f"GPU {gpu_idx}")
Scatter(s, metric, gpu_idx) ==
    [name |-> "GPU " \o IntStr(gpu_idx),
     x |-> [j \in 1..Len(s) |-> s[j].ts],
     y |-> [j \in 1..Len(s) |-> s[j][metric]]]

\* lines 231-244 for one GPU's rows
BuildTrace(s, metric, gpu_idx) == Scatter(Downsample(s), metric, gpu_idx)

\* sorted(df["gpu_index"].unique())
RECURSIVE SortedInts(_)
SortedInts(S) == IF S = {} THEN <<>> ELSE <<Min(S)>> \o SortedInts(S \ {Min(S)})
GpuIndices(d) == SortedInts({d[k].gpu_index : k \in 1..Len(d)})

\* df[df["gpu_index"] == gpu_idx]
Partition(d, gpu_idx) == SelectSeq(d, LAMBDA r : r.gpu_index = gpu_idx)

METRIC_SPECS == <<
    [key |-> "gpu_util_pct", title |-> "GPU Utilization (%)", unit |-> "Percent"],
    [key |-> "mem_used_mib", title |-> "GPU Memory Used (MiB)", unit |-> "MiB"],
    [key |-> "power_w", title |-> "Power Draw (W)", unit |-> "W"],
    [key |-> "temp_c", title |-> "Temperature (C)", unit |-> "C"],
    [key |-> "sm_clock_mhz", title |-> "SM Clock (MHz)", unit |-> "MHz"],
    [key |-> "mem_clock_mhz", title |-> "Memory Clock (MHz)", unit |-> "MHz"]>>

\* the figure of lines 229-252 for one metric
Figure(d, spec) ==
    LET gs == GpuIndices(d)
    IN [data |-> [j \in 1..Len(gs) |-> BuildTrace(Partition(d, gs[j]), spec.key, gs[j])],
        layout |-> [title |-> spec.title, xaxis_title |-> "Time",
                    yaxis_title |-> spec.unit, legend_title |-> "GPU"]]

\* df["ts"].min() and .max(), by halving the frame
RECURSIVE TsMin(_, _, _)
TsMin(d, lo, hi) ==
    IF lo = hi THEN d[lo].ts
    ELSE LET mid == (lo + hi) \div 2
             a == TsMin(d, lo, mid)
             b == TsMin(d, mid + 1, hi)
         IN IF TsLeq(a, b) THEN a ELSE b
RECURSIVE TsMax(_, _, _)
TsMax(d, lo, hi) ==
    IF lo = hi THEN d[lo].ts
    ELSE LET mid == (lo + hi) \div 2
             a == TsMax(d, lo, mid)
             b == TsMax(d, mid + 1, hi)
         IN IF TsLeq(a, b) THEN b ELSE a

\* one partition after the other, each downsampled
RECURSIVE DownsampledRows(_, _)
DownsampledRows(d, gs) ==
    IF gs = <<>> THEN <<>>
    ELSE Downsample(Partition(d, Head(gs))) \o DownsampledRows(d, Tail(gs))

\* the summary of lines 221-226
SummaryOf(d) ==
    [time_start |-> IF Len(d) > 0 THEN IsoFormat(TsMin(d, 1, Len(d))) ELSE None,
     time_end |-> IF Len(d) > 0 THEN IsoFormat(TsMax(d, 1, Len(d))) ELSE None,
     gpu_count |-> IF Len(d) > 0 THEN Cardinality({d[k].gpu_index : k \in 1..Len(d)}) ELSE 0,
     rows |-> Len(d)]
SummaryAfterDownsampling(d) == SummaryOf(DownsampledRows(d, GpuIndices(d)))
Summary(d) == SummaryOf(d)

(***************************************************************************)
(* generate_html_report (lines 186-421)                                    *)
(***************************************************************************)
FileNotFoundError(dirpath) ==
    [type |-> "FileNotFoundError", msg |-> "No gpu_*.csv files found under " \o dirpath]

\* lines 199-200: the exception raised when discovery returned fl
Unchecked(dirpath, fl) == NoError
CheckFiles(dirpath, fl) == IF fl = <<>> THEN FileNotFoundError(dirpath) ELSE NoError

FigKey(key, metric) == key \o "__" \o metric

\* runs: run_id -> the sorted keys of the files of that date (lines 258-263)
Runs(fl, pad) ==
    LET ids == {StrftimeDate(fl[k].timestamp, pad) : k \in 1..Len(fl)}
    IN [r \in ids |->
           Sorted([j \in 1..Len(SelectSeq(fl, LAMBDA f : StrftimeDate(f.timestamp, pad) = r))
                   |-> Key(SelectSeq(fl, LAMBDA f : StrftimeDate(f.timestamp, pad) = r)[j],
                           pad)])]

\* the payload of lines 265-281, without generated_at (the wall clock)
Payload(dirpath, fl, pad, sums, metas, figs) ==
    [metrics_dir |-> dirpath,
     runs |-> Runs(fl, pad),
     files |-> [k \in 1..Len(fl) |->
                   [key |-> Key(fl[k], pad), phase |-> fl[k].phase,
                    timestamp |-> Strftime(fl[k].timestamp, pad)]],
     metric_specs |-> METRIC_SPECS,
     summaries |-> sums,
     meta_by_key |-> metas,
     figures |-> figs]

\* generate_html_report is not running
GenIdle ==
    /\ fs = <<>>
    /\ i = 0
    /\ summaries = <<>>
    /\ meta_by_key = <<>>
    /\ figures = <<>>
    /\ report = [exists |-> FALSE, writes |-> 0, payload |-> <<>>]

(***************************************************************************)
(* SpecLoad: load_metrics_dataframe applied to one file                    *)
(***************************************************************************)
DIR_PATH == "metrics"
A_CSV == DIR_PATH \o "/gpu_train_20240102_030405.csv"

InitLoad ==
    /\ pc = "load"
    /\ metrics_dir = [exists |-> TRUE, path |-> DIR_PATH, entries |-> {}]
    /\ pad_year = TRUE
    /\ files = <<>>
    /\ files2 = <<>>
    /\ meta_file = NoFile
    /\ meta = <<>>
    /\ csv_path = A_CSV
    /\ csv \in SmallCsvs
    /\ df = <<>>
    /\ err = NoError
    /\ sdf = <<>>
    /\ series = <<>>
    /\ GenIdle

Load ==
    /\ pc = "load"
    /\ LET r == LoadMetricsDataframe(csv_path, csv)
       IN /\ err' = r.raised
          /\ df' = r.df
          /\ pc' = IF r.raised = NoError THEN "returned" ELSE "raised"
    /\ UNCHANGED <<metrics_dir, pad_year, files, files2, meta_file, meta, csv_path, csv, sdf, series, gen_vars>>

NextLoad == Load

SpecLoad == InitLoad /\ [][NextLoad]_vars

(***************************************************************************)
(* SpecDisc: discover_metrics_files, called twice on one directory         *)
(***************************************************************************)
NamePool == {
    "gpu_train_20240102_030405.csv",
    "gpu_eval_20240102_030405.csv",
    "gpu_train_20240103_000000.csv",
    "gpu_train_20240102_221100.csv",
    "gpu_a_b_20231231_235959.csv",
    "gpu_train_09990101_000000.csv",
    "gpu_train_20241301_000000.csv",
    "gpu__20240102_030405.csv",
    "gpu_notes.csv",
    "gpu_train_20240102_030405.meta.txt",
    "report.html" }

Directories ==
    {[exists |-> FALSE, path |-> DIR_PATH, entries |-> {}]}
    \cup {[exists |-> TRUE, path |-> DIR_PATH, entries |-> E] :
             E \in {X \in SUBSET NamePool : Cardinality(X) <= MaxEntries}}

InitDisc ==
    /\ pc = "scan"
    /\ metrics_dir \in Directories
    /\ pad_year \in BOOLEAN
    /\ files = <<>>
    /\ files2 = <<>>
    /\ meta_file = NoFile
    /\ meta = <<>>
    /\ csv_path = ""
    /\ csv = <<>>
    /\ df = <<>>
    /\ err = NoError
    /\ sdf = <<>>
    /\ series = <<>>
    /\ GenIdle

Scan ==
    /\ pc = "scan"
    /\ \E listing \in Listings(metrics_dir.entries) :
          LET r == DiscoverMetricsFiles(metrics_dir, listing)
          IN /\ err' = r.raised
             /\ files' = r.out
             /\ pc' = IF r.raised = NoError THEN "rescan" ELSE "raised"
    /\ UNCHANGED <<metrics_dir, pad_year, files2, meta_file, meta, csv_path, csv, df, sdf, series, gen_vars>>

Rescan ==
    /\ pc = "rescan"
    /\ \E listing \in Listings(metrics_dir.entries) :
          LET r == DiscoverMetricsFiles(metrics_dir, listing)
          IN /\ err' = r.raised
             /\ files2' = r.out
             /\ pc' = IF r.raised = NoError THEN "scanned" ELSE "raised"
    /\ UNCHANGED <<metrics_dir, pad_year, files, meta_file, meta, csv_path, csv, df, sdf, series, gen_vars>>

NextDisc == Scan \/ Rescan

SpecDisc == InitDisc /\ [][NextDisc]_vars

(***************************************************************************)
(* SpecMeta: parse_meta_file applied to one file                           *)
(***************************************************************************)
LinePool == {
    "driver_version = 535.129.03",
    "driver_version=550.54",
    "started_at = a=b ",
    "[Driver Info]",
    "[gpu] = 0",
    "GPU 0: NVIDIA RTX A5000 (UUID: GPU-abc123)",
    "GPU 1:  NVIDIA H100 (SXM) (UUID:  GPU-def456) ",
    "GPU x: none (UUID: none)",
    "gpus = 2",
    "plain text" }

MetaFiles ==
    {NoFile} \cup {[exists |-> TRUE, text |-> JoinLines(q)] : q \in SeqsUpTo(LinePool, MaxLines)}

InitMeta ==
    /\ pc = "parse"
    /\ metrics_dir = [exists |-> TRUE, path |-> DIR_PATH, entries |-> {}]
    /\ pad_year = TRUE
    /\ files = <<>>
    /\ files2 = <<>>
    /\ meta_file \in MetaFiles
    /\ meta = <<>>
    /\ csv_path = ""
    /\ csv = <<>>
    /\ df = <<>>
    /\ err = NoError
    /\ sdf = <<>>
    /\ series = <<>>
    /\ GenIdle

ParseMeta ==
    /\ pc = "parse"
    /\ meta' = ParseMetaFile(meta_file)
    /\ pc' = "parsed"
    /\ UNCHANGED <<metrics_dir, pad_year, files, files2, meta_file, csv_path, csv, df, err,
                   sdf, series, gen_vars>>

NextMeta == ParseMeta

SpecMeta == InitMeta /\ [][NextMeta]_vars

(***************************************************************************)
(* SpecSeries: the series builder applied to one GPU's rows                *)
(***************************************************************************)
\* the k-th sample of GPU g, one sample a second
SampleTs(k) == <<2024, 1, 2, (k - 1) \div 3600, ((k - 1) \div 60) % 60, (k - 1) % 60, 0>>
SampleRow(k, g) ==
    [row |-> k - 1, ts |-> SampleTs(k), gpu_index |-> g,
     gpu_util_pct |-> <<((k * 7) % 101) * 100>>, mem_util_pct |-> <<1200>>,
     power_w |-> <<12050>>, sm_clock_mhz |-> <<151500>>, mem_clock_mhz |-> <<680000>>,
     temp_c |-> <<4500>>, mem_used_mib |-> <<102400>>, mem_total_mib |-> <<2456400>>]

\* partition sizes: the small ones, and those around each multiple of the budget
PartitionSizes ==
    (1..Spread)
    \cup UNION {((m * MAX_POINTS_PER_SERIES - Spread)..(m * MAX_POINTS_PER_SERIES + Spread)) :
                   m \in 1..MaxMultiple}

InitSeries ==
    /\ pc = "series"
    /\ metrics_dir = [exists |-> TRUE, path |-> DIR_PATH, entries |-> {}]
    /\ pad_year = TRUE
    /\ files = <<>>
    /\ files2 = <<>>
    /\ meta_file = NoFile
    /\ meta = <<>>
    /\ csv_path = ""
    /\ csv = <<>>
    /\ df = <<>>
    /\ err = NoError
    /\ \E n \in PartitionSizes : sdf = [k \in 1..n |-> SampleRow(k, 0)]
    /\ series = <<>>
    /\ GenIdle

BuildSeries ==
    /\ pc = "series"
    /\ series' = BuildTrace(sdf, "gpu_util_pct", 0)
    /\ pc' = "built"
    /\ UNCHANGED <<metrics_dir, pad_year, files, files2, meta_file, meta, csv_path, csv, df,
                   err, sdf, gen_vars>>

NextSeries == BuildSeries

SpecSeries == InitSeries /\ [][NextSeries]_vars

(***************************************************************************)
(* Spec: generate_html_report on a metrics directory                       *)
(***************************************************************************)
TRAIN == "gpu_train_20240102_030405.csv"
EVAL == "gpu_eval_20240102_221100.csv"
BAD_DATE == "gpu_train_20241301_000000.csv"
NOTES == "gpu_notes.csv"

META_TEXT == "phase = train\n[GPUs]\nGPU 0: NVIDIA RTX A5000 (UUID: GPU-abc123)"

PathOf(name) == DIR_PATH \o "/" \o name
SidecarOf(name) == SubSeq(PathOf(name), 1, Len(PathOf(name)) - 4) \o ".meta.txt"

Row1 == StdCells(T1, "0", "45 %")
Row2 == StdCells(T2, "1", "97 %")

\* the rows of the first file: none, well-formed ones, ones to drop, a negative
\* and a fractional index
TrainRows == {
    <<>>,
    <<Row1, Row2>>,
    <<Row2, StdCells("garbage", "0", "45 %"), StdCells(T1, "1", "[N/A]"),
      StdCells(T2, "abc", "45 %"), Row1>>,
    <<StdCells(T1, "-1", "45 %")>>,
    <<Row1, StdCells(T2, "1.5", "45 %")>> }

TrainCsvs ==
    {CsvLacking({}, rows) : rows \in TrainRows}
    \cup {CsvLacking({k}, <<Row1>>) : k \in 1..Len(STD_HEADER)}
    \cup {CsvLacking({2, 8}, <<Row1>>)}

EvalCsvs == {CsvLacking({}, <<Row2, Row1>>), CsvLacking({8}, <<Row1>>)}

\* a long run: row k is the sample (k-1) \div G of GPU (k-1) % G
SampleCell(k) ==
    "2024/01/02 " \o FmtNat(k \div 3600, 2) \o ":" \o FmtNat((k \div 60) % 60, 2)
    \o ":" \o FmtNat(k % 60, 2) \o ".000"
BigCsv ==
    CsvLacking({}, [k \in 1..(BigGpus * BigSamples) |->
                       StdCells(SampleCell((k - 1) \div BigGpus), IntStr((k - 1) % BigGpus),
                                IntStr(((k - 1) * 7) % 101) \o " %")])

\* the files a directory with the entries E can hold
TrainFiles(E) ==
    IF TRAIN \notin E THEN {<<>>}
    ELSE {(PathOf(TRAIN) :> c) @@ m :
             c \in TrainCsvs, m \in {<<>>, (SidecarOf(TRAIN) :> META_TEXT)}}
EvalFiles(E) ==
    IF EVAL \notin E THEN {<<>>} ELSE {(PathOf(EVAL) :> c) : c \in EvalCsvs}
OtherFiles(E) ==
    [q \in {PathOf(name) : name \in E \cap {BAD_DATE, NOTES}} |-> CsvLacking({}, <<>>)]

SmallFileSystems ==
    UNION {{a @@ b @@ OtherFiles(E) : a \in TrainFiles(E), b \in EvalFiles(E)} :
              E \in {X \in SUBSET {TRAIN, EVAL, BAD_DATE, NOTES} : Cardinality(X) <= MaxEntries}}

BigFileSystem == (PathOf(TRAIN) :> BigCsv) @@ (SidecarOf(TRAIN) :> META_TEXT)

\* the names of the directory's entries
EntriesOf(f) ==
    {SubSeq(q, Len(DIR_PATH) + 2, Len(q)) : q \in DOMAIN f}

\* the file at a path of fs, as parse_meta_file sees it
FileAt(f, path) ==
    IF path \in DOMAIN f THEN [exists |-> TRUE, text |-> f[path]] ELSE NoFile

Init ==
    /\ pc = "start"
    /\ pad_year = TRUE
    /\ \/ /\ fs \in SmallFileSystems
          /\ metrics_dir = [exists |-> TRUE, path |-> DIR_PATH, entries |-> EntriesOf(fs)]
          /\ report \in {[exists |-> e, writes |-> 0, payload |-> <<>>] : e \in BOOLEAN}
       \/ /\ fs = BigFileSystem
          /\ metrics_dir = [exists |-> TRUE, path |-> DIR_PATH, entries |-> EntriesOf(fs)]
          /\ report = [exists |-> FALSE, writes |-> 0, payload |-> <<>>]
       \/ /\ fs = <<>>
          /\ metrics_dir = [exists |-> FALSE, path |-> DIR_PATH, entries |-> {}]
          /\ report = [exists |-> FALSE, writes |-> 0, payload |-> <<>>]
    /\ files = <<>>
    /\ files2 = <<>>
    /\ meta_file = NoFile
    /\ meta = <<>>
    /\ csv_path = ""
    /\ csv = <<>>
    /\ df = <<>>
    /\ err = NoError
    /\ i = 0
    /\ summaries = <<>>
    /\ meta_by_key = <<>>
    /\ figures = <<>>
    /\ sdf = <<>>
    /\ series = <<>>

\* lines 198-200, and the for loop of line 216 reached: with no file to load
\* the loop body never runs
GenDiscover ==
    /\ pc = "start"
    /\ \E listing \in Listings(metrics_dir.entries) :
          LET r == DiscoverMetricsFiles(metrics_dir, listing)
          IN /\ files' = r.out
             /\ err' = IF r.raised # NoError THEN r.raised
                       ELSE CheckFiles(metrics_dir.path, r.out)
             /\ pc' = IF err' # NoError THEN "raised"
                      ELSE IF r.out = <<>> THEN "write" ELSE "load"
    /\ UNCHANGED <<metrics_dir, pad_year, files2, meta_file, meta, csv_path, csv, df, sdf,
                   series, gen_vars>>

\* line 217
GenLoad ==
    /\ pc = "load"
    /\ LET mf == files[i + 1]
           r == LoadMetricsDataframe(mf.csv_path, fs[mf.csv_path])
       IN /\ csv_path' = mf.csv_path
          /\ err' = r.raised
          /\ df' = r.df
          /\ pc' = IF r.raised = NoError THEN "build" ELSE "raised"
    /\ UNCHANGED <<metrics_dir, pad_year, files, files2, meta_file, meta, csv, sdf, series,
                   gen_vars>>

\* lines 218-255
GenBuild ==
    /\ pc = "build"
    /\ LET mf == files[i + 1]
           key == Key(mf, pad_year)
       IN /\ meta_by_key' = (key :> ParseMetaFile(FileAt(fs, MetaPath(mf)))) @@ meta_by_key
          /\ summaries' = (key :> Summary(df)) @@ summaries
          /\ figures' = [fk \in {FigKey(key, METRIC_SPECS[m].key) : m \in 1..Len(METRIC_SPECS)}
                         |-> Figure(df, CHOOSE spec \in {METRIC_SPECS[m] : m \in 1..Len(METRIC_SPECS)} :
                                           FigKey(key, spec.key) = fk)]
                        @@ figures
    /\ i' = i + 1
    /\ pc' = IF i + 1 = Len(files) THEN "write" ELSE "load"
    /\ UNCHANGED <<metrics_dir, pad_year, files, files2, meta_file, meta, csv_path, csv, df,
                   err, fs, report, sdf, series>>

\* lines 257-421
GenWrite ==
    /\ pc = "write"
    /\ report' = [exists |-> TRUE,
                  writes |-> report.writes + 1,
                  payload |-> <<Payload(metrics_dir.path, files, pad_year, summaries,
                                        meta_by_key, figures)>>]
    /\ pc' = "returned"
    /\ UNCHANGED <<metrics_dir, pad_year, files, files2, meta_file, meta, csv_path, csv, df,
                   err, fs, i, summaries, meta_by_key, figures, sdf, series>>

Next == GenDiscover \/ GenLoad \/ GenBuild \/ GenWrite

Spec == Init /\ [][Next]_vars

(***************************************************************************)
(* Properties of the series builder (SpecSeries)                           *)
(***************************************************************************)
\* the points of the built series, as <<x, y>> pairs
Points == [j \in 1..Len(series.x) |-> <<series.x[j], series.y[j]>>]
\* the original points of the partition
Originals == [k \in 1..Len(sdf) |-> <<sdf[k].ts, sdf[k].gpu_util_pct>>]

\* C1: the series built for a partition of any size has at most
\* MAX_POINTS_PER_SERIES points, and its first point is the partition's first row
C1_WithinBudgetFirstKept ==
    pc = "built" =>
        /\ Len(series.x) <= MAX_POINTS_PER_SERIES
        /\ Len(series.y) = Len(series.x)
        /\ Points[1] = Originals[1]

\* a partition over the budget was cut down
C1_Witness ==
    /\ pc = "built"
    /\ Len(sdf) > 2 * MAX_POINTS_PER_SERIES
    /\ Len(series.x) < Len(sdf)
    /\ Len(series.x) <= MAX_POINTS_PER_SERIES

\* C7 as stated: the series holds the first and the last original point, and
\* the points between are a uniform-stride subset in the original order
C7_FirstAndLastKept ==
    pc = "built" =>
        /\ Points[1] = Originals[1]
        /\ Points[Len(Points)] = Originals[Len(Originals)]
        /\ \E step \in 1..Len(sdf) :
              \A j \in 1..(Len(Points) - 1) : Points[j] = Originals[(j - 1) * step + 1]

\* C7 amended: the series holds the original points at positions 0, step,
\* 2*step, ... for one step, so the first point always, and the last one
\* exactly when the partition's size less one is a multiple of the step
C7_UniformStrideFromFirst ==
    pc = "built" =>
        \E step \in 1..Len(sdf) :
            /\ Len(Points) = (Len(sdf) + step - 1) \div step
            /\ \A j \in 1..Len(Points) : Points[j] = Originals[(j - 1) * step + 1]
            /\ (Points[Len(Points)] = Originals[Len(Originals)]) <=> ((Len(sdf) - 1) % step = 0)

\* a partition was cut down and its last point left out
C7_Witness ==
    /\ pc = "built"
    /\ Len(sdf) > MAX_POINTS_PER_SERIES
    /\ Len(series.x) < Len(sdf)
    /\ series.x[Len(series.x)] # sdf[Len(sdf)].ts

(***************************************************************************)
(* Properties of the CSV normaliser (SpecLoad)                             *)
(***************************************************************************)
\* every required prefix starts some header of the file
Complete(c) ==
    \A k \in 1..Len(REQUIRED) :
        \E h \in 1..Len(c.header) : StartsWith(Strip(c.header[h]), REQUIRED[k])

\* the cells of an input row under the timestamp and index headers
TsCell(c, k) == c.rows[k][CHOOSE h \in 1..Len(c.header) : StartsWith(c.header[h], "timestamp")]
IndexCell(c, k) == c.rows[k][CHOOSE h \in 1..Len(c.header) : StartsWith(c.header[h], "index")]

\* the input rows whose timestamp and index both parse
Parsable(c) ==
    {k \in 1..Len(c.rows) : ToDatetime(TsCell(c, k)) # NaT /\ ToNumeric(IndexCell(c, k)) # NaN}

\* C4: for a CSV with all required columns the load never fails and returns
\* exactly the input rows whose timestamp and index both parse, in input
\* order, a measurement that cannot be coerced being kept as a missing value
C4_BadRowsDroppedAlone ==
    (pc # "load" /\ Complete(csv)) =>
        /\ pc = "returned"
        /\ Len(df) = Cardinality(Parsable(csv))
        /\ Len(df) <= Len(csv.rows)
        /\ \A k \in 1..Len(df) : df[k].row + 1 \in Parsable(csv)
        /\ \A j, k \in 1..Len(df) : j < k => df[j].row < df[k].row

\* C10 as stated: every returned row has a non-negative integer GPU index
C10_IndexNonNegative ==
    pc = "returned" => \A k \in 1..Len(df) : df[k].gpu_index \in Nat

\* C10 amended: every returned row has an integer GPU index, the number its
\* index cell denotes, which is negative when the cell is
C10_IndexIsTheCellsInteger ==
    pc = "returned" =>
        \A k \in 1..Len(df) :
            /\ df[k].gpu_index \in Int
            /\ <<df[k].gpu_index * 100>> = ToNumeric(IndexCell(csv, df[k].row + 1))

\* a row with a negative index cell was returned, next to one written 2.0
C10_Witness ==
    /\ pc = "returned"
    /\ \E k \in 1..Len(df) : df[k].gpu_index < 0 /\ IndexCell(csv, df[k].row + 1) = "-1"
    /\ \E k \in 1..Len(df) : df[k].gpu_index = 2 /\ IndexCell(csv, df[k].row + 1) = "2.0"

(***************************************************************************)
(* Properties of file discovery (SpecDisc)                                 *)
(***************************************************************************)
\* the file name of a discovered record
NameOf(mf) == SubSeq(mf.csv_path, Len(metrics_dir.path) + 2, Len(mf.csv_path))

\* the entries named gpu_<phase>_<8 digits>_<6 digits>.csv
Matching == {name \in metrics_dir.entries : ReMatchCsv(name).ok}

\* C5: discovery never fails; it returns one record for every entry whose
\* name matches the pattern, in ascending filename order, none for any other
\* entry, and the empty list for a directory that does not exist
C5_DiscoveryNeverFails ==
    pc # "scan" =>
        /\ pc # "raised"
        /\ err = NoError
        /\ {NameOf(files[k]) : k \in 1..Len(files)} =
               (IF metrics_dir.exists THEN Matching ELSE {})
        /\ \A a, b \in 1..Len(files) : a < b => StrLess(NameOf(files[a]), NameOf(files[b]))

\* the keys of a list of discovered files, in order
Keys(fl) == [k \in 1..Len(fl) |-> Key(fl[k], pad_year)]

\* C6: the keys of the files one scan returns are pairwise distinct, and a
\* second scan of the unchanged directory yields the same keys in the same order
C6_KeysUniqueAndStable ==
    /\ \A a, b \in 1..Len(files) : a # b => Keys(files)[a] # Keys(files)[b]
    /\ pc = "scanned" => Keys(files2) = Keys(files)

\* both scans returned three files, two of them of one phase and one day
C6_Witness ==
    /\ pc = "scanned"
    /\ Len(files) = 3
    /\ Len(files2) = 3
    /\ \E a, b \in 1..3 :
          /\ a # b
          /\ files[a].phase = files[b].phase
          /\ StrftimeDate(files[a].timestamp, pad_year) = StrftimeDate(files[b].timestamp, pad_year)

(***************************************************************************)
(* Properties of the metadata parser (SpecMeta)                            *)
(***************************************************************************)
\* the lines of the metadata file
MetaLines == SplitLines(meta_file.text)

\* the lines holding a key and a value, and those of the GPU form
KvLines == {k \in 1..Len(MetaLines) : IsKvLine(MetaLines[k])}
GpuLines == {k \in 1..Len(MetaLines) : IsGpuLine(MetaLines[k])}

\* C9: the parser returns the empty map for a missing file and otherwise a
\* map that (i) holds, for every key = value line not starting with "[", the
\* trimmed key with the trimmed value of the last such line, and nothing for
\* the other lines, and (ii) holds the list of GPU entries, in file order,
\* under "gpus", a key present only if some line has the GPU form
C9_MetaMap ==
    pc = "parsed" =>
        /\ ~meta_file.exists => meta = <<>>
        /\ meta_file.exists =>
              /\ DOMAIN meta \ {"gpus"} = {KvKey(MetaLines[k]) : k \in KvLines} \ {"gpus"}
              /\ \A k \in KvLines :
                    (KvKey(MetaLines[k]) # "gpus"
                     /\ \A j \in KvLines : j > k => KvKey(MetaLines[j]) # KvKey(MetaLines[k]))
                    => meta[KvKey(MetaLines[k])] = StrValue(KvValue(MetaLines[k]))
              /\ "gpus" \in DOMAIN meta <=> GpuLines # {}
              /\ "gpus" \in DOMAIN meta =>
                    /\ meta["gpus"].kind = "list"
                    /\ Len(meta["gpus"].list) = Cardinality(GpuLines)
                    /\ \A j \in 1..Len(meta["gpus"].list) :
                          \E k \in GpuLines :
                              /\ Cardinality({x \in GpuLines : x < k}) = j - 1
                              /\ meta["gpus"].list[j] = ReMatchGpu(MetaLines[k]).gpu

(***************************************************************************)
(* Properties of generate_html_report (Spec)                               *)
(***************************************************************************)
\* the keys under which one file's figures are stored
FigKeysOf(key) == {FigKey(key, METRIC_SPECS[m].key) : m \in 1..Len(METRIC_SPECS)}

\* file k of the discovered list has its summary, metadata and figures stored
Built(k) ==
    /\ Key(files[k], pad_year) \in DOMAIN summaries
    /\ Key(files[k], pad_year) \in DOMAIN meta_by_key
    /\ FigKeysOf(Key(files[k], pad_year)) \subseteq DOMAIN figures

\* C2: the output file is written at most once, and only after discovery
\* returned at least one file and every file was loaded and built without
\* error; when discovery finds no file or a load raises, the call fails and
\* the output file is neither written nor modified
C2_WrittenOnceAfterAllFiles ==
    /\ report.writes <= 1
    /\ report.writes = 1 =>
          /\ pc = "returned"
          /\ err = NoError
          /\ Len(files) >= 1
          /\ i = Len(files)
          /\ \A k \in 1..Len(files) : Built(k)
          /\ report.exists
    /\ (pc # "start" /\ files = <<>>) => (pc = "raised" /\ err # NoError)
    /\ err # NoError => pc = "raised"
    /\ pc = "raised" => (report.writes = 0 /\ report.payload = <<>>)

\* the report was written after two files were loaded and built
C2_Witness ==
    /\ pc = "returned"
    /\ report.writes = 1
    /\ Len(files) = 2
    /\ i = 2
    /\ Len(report.payload[1].files) = 2

\* the required prefixes that start no header of the file being loaded
Lacked ==
    {k \in 1..Len(REQUIRED) :
        \A h \in 1..Len(fs[csv_path].header) :
            ~StartsWith(Strip(fs[csv_path].header[h]), REQUIRED[k])}

\* the error names the prefix in quotes, and the path
Names(e, prefix, path) ==
    /\ e.type = "KeyError"
    /\ Contains(e.msg, "'" \o prefix \o "'")
    /\ Contains(e.msg, path)

\* nothing of the file being loaded is stored, and nothing was written
NothingEmitted ==
    /\ report.writes = 0
    /\ report.payload = <<>>
    /\ \A k \in 1..Len(files) :
          files[k].csv_path = csv_path =>
              /\ Key(files[k], pad_year) \notin DOMAIN summaries
              /\ Key(files[k], pad_year) \notin DOMAIN meta_by_key
              /\ FigKeysOf(Key(files[k], pad_year)) \cap DOMAIN figures = {}

\* C3 as stated: for each required prefix that starts no header of a file,
\* the load of that file fails with an error naming that prefix and the path,
\* the error propagates, and nothing of the file reaches a payload
C3_EveryLackedPrefixNamed ==
    csv_path # "" =>
        \A k \in Lacked :
            /\ pc = "raised"
            /\ Names(err, REQUIRED[k], csv_path)
            /\ NothingEmitted

\* C3 amended: when some required prefix starts no header of a file, the load
\* of that file fails with an error naming the path and the first such
\* prefix in the order timestamp, index, utilization.gpu, utilization.memory,
\* power.draw, clocks.current.sm, clocks.current.memory, temperature.gpu,
\* memory.used, memory.total; the error propagates, and nothing of the file
\* reaches a payload
C3_FirstLackedPrefixNamed ==
    (csv_path # "" /\ Lacked # {}) =>
        /\ pc = "raised"
        /\ Names(err, REQUIRED[Min(Lacked)], csv_path)
        /\ \A k \in Lacked \ {Min(Lacked)} : ~Names(err, REQUIRED[k], csv_path)
        /\ NothingEmitted

\* the load of a file lacking two columns was attempted
C3_Witness ==
    /\ pc = "raised"
    /\ csv_path # ""
    /\ Cardinality(Lacked) = 2
    /\ err.type = "KeyError"

\* the GPU indices of the rows of df
GpuSet == {df[k].gpu_index : k \in 1..Len(df)}

\* the summary and the figures of the file built last
LastKey == Key(files[i], pad_year)

\* C8: a file's summary is taken over all its normalised rows: rows is their
\* number, gpu_count the number of distinct GPU indices, time_start and
\* time_end the least and the greatest timestamp, and every metric's figure
\* has one series for each GPU index, in ascending order of the index
C8_SummaryOverAllRows ==
    (pc \in {"load", "write", "returned"} /\ i >= 1) =>
        /\ summaries[LastKey].rows = Len(df)
        /\ summaries[LastKey].gpu_count = Cardinality(GpuSet)
        /\ Len(df) > 0 =>
              /\ \E k \in 1..Len(df) :
                    /\ IsoFormat(df[k].ts) = summaries[LastKey].time_start
                    /\ \A j \in 1..Len(df) : TsLeq(df[k].ts, df[j].ts)
              /\ \E k \in 1..Len(df) :
                    /\ IsoFormat(df[Len(df) + 1 - k].ts) = summaries[LastKey].time_end
                    /\ \A j \in 1..Len(df) : TsLeq(df[j].ts, df[Len(df) + 1 - k].ts)
        /\ \A fk \in FigKeysOf(LastKey) :
              /\ Len(figures[fk].data) = Cardinality(GpuSet)
              /\ \A j \in 1..Len(figures[fk].data) :
                    \E g \in GpuSet :
                        /\ Cardinality({x \in GpuSet : x < g}) = j - 1
                        /\ figures[fk].data[j].name = "GPU " \o IntStr(g)

\* 3 GPUs with more rows each than the budget: 3 series a metric, each cut down
C8_Witness ==
    /\ pc = "returned"
    /\ Len(df) = BigGpus * BigSamples
    /\ summaries[LastKey].rows = BigGpus * BigSamples
    /\ summaries[LastKey].gpu_count = BigGpus
    /\ \A fk \in FigKeysOf(LastKey) :
          /\ Len(figures[fk].data) = BigGpus
          /\ \A j \in 1..BigGpus : Len(figures[fk].data[j].x) < BigSamples

====
